---- MODULE Spec2Model ----
(***************************************************************************)
(* promptpath: the prompt path resolver (scripts/promptpath.py) and the    *)
(* benchmark driver (scripts/benchmark.py).                                *)
(*                                                                         *)
(* A Python str is a sequence of one-character strings, so that prefix     *)
(* tests, first-occurrence replacement, slicing and path normalisation are *)
(* computed character by character as the interpreter computes them.       *)
(* None is the empty sequence <<>> and a present value v is <<v>>.         *)
(***************************************************************************)
EXTENDS Integers, Sequences, FiniteSets, TLC

VARIABLES
    home,           \* the HOME environment variable
    cwd,            \* os.getcwd() of the promptpath process
    mappings,       \* the module-level PROJECT_MAPPINGS dict, in insertion order
    pc,             \* position of the promptpath process
    pwd,            \* get_pathname's / find_project_alias's pwd
    project_match,  \* get_pathname's project_match (None or <<(path, alias)>>)
    out,            \* what get_pathname returned and __main__ printed
    norm_in,        \* argument given to normalize_path
    norm_out,       \* successive results of normalize_path applied to it
    iterations,     \* benchmark_command's iterations parameter
    bpc,            \* position of the benchmark process
    dir_idx,        \* main's position in test_dirs (1-based)
    proc_cwd,       \* working directory of the benchmark process
    cand,           \* name of the candidate being benchmarked
    warm,           \* warm-up loop counter
    iter_i,         \* measured loop counter
    times,          \* benchmark_command's times list
    calls,          \* run_command calls of the current benchmark_command call
    result,         \* what benchmark_command returned (None before)
    py_results,     \* main's py_results
    rust_results,   \* main's rust_results
    printed,        \* the report tables print_results wrote
    runs,           \* every subprocess invocation of the process so far
    err             \* the uncaught exception that ended the process ("" if none)

pathVars == <<cwd, mappings, pc, pwd, project_match, out>>

normVars == <<norm_in, norm_out>>

benchVars == <<iterations, bpc, dir_idx, proc_cwd, cand, warm, iter_i, times,
               calls, result, py_results, rust_results, printed, runs, err>>

vars == <<home, pathVars, normVars, benchVars>>

----------------------------------------------------------------------------
(* Bounds of the model *)

\* trailing path segments appended below a directory when enumerating os.getcwd()
MaxTail == 2
\* number of entries of an enumerated PROJECT_MAPPINGS table
MaxMappings == 2
\* length of the strings given to normalize_path
MaxLen == 5
\* largest iterations argument given to benchmark_command
MaxIter == 3
\* durations a measured run can take, in whole milliseconds: 1..MaxDur
MaxDur == 2

----------------------------------------------------------------------------
(* Python str operations *)

None == <<>>

Some(v) == <<v>>

SetMin(S) == CHOOSE x \in S : \A y \in S : x <= y

\* s.startswith(p)
StartsWith(s, p) == Len(p) <= Len(s) /\ SubSeq(s, 1, Len(p)) = p

\* s.find(old, from), 1-based; 0 when old does not occur at or after from
Find(s, old, from) ==
    LET idx == {i \in from..(Len(s) - Len(old) + 1) :
                    SubSeq(s, i, i + Len(old) - 1) = old}
    IN  IF idx = {} THEN 0 ELSE SetMin(idx)

\* s.replace(old, new, 1): only the first occurrence, wherever it is
Replace1(s, old, new) ==
    LET i == Find(s, old, 1)
    IN  IF i = 0 THEN s
        ELSE SubSeq(s, 1, i - 1) \o new \o SubSeq(s, i + Len(old), Len(s))

\* s[n:]
SliceFrom(s, n) == SubSeq(s, n + 1, Len(s))

RECURSIVE RStrip(_, _)
\* s.rstrip(c)
RStrip(s, c) ==
    IF s # <<>> /\ s[Len(s)] = c THEN RStrip(SubSeq(s, 1, Len(s) - 1), c) ELSE s

RECURSIVE Split(_, _)
\* s.split(sep) for a one-character sep: always at least one component
Split(s, sep) ==
    LET i == Find(s, <<sep>>, 1)
    IN  IF i = 0 THEN <<s>>
        ELSE <<SubSeq(s, 1, i - 1)>> \o Split(SubSeq(s, i + 1, Len(s)), sep)

RECURSIVE Join(_, _)
\* sep.join(comps)
Join(comps, sep) ==
    IF comps = <<>> THEN <<>>
    ELSE IF Len(comps) = 1 THEN comps[1]
    ELSE comps[1] \o <<sep>> \o Join(Tail(comps), sep)

----------------------------------------------------------------------------
(* os.path.expanduser and os.path.normpath (posixpath), as normalize_path    *)
(* calls them                                                               *)

\* os.path.expanduser(path). "~" and "~/..." take HOME; "~name..." asks the
\* password database for user name, which knows no such user here, and the
\* path comes back unchanged.
ExpandUser(path) ==
    IF ~StartsWith(path, <<"~">>) THEN path
    ELSE LET f == Find(path, <<"/">>, 2)
             i == IF f = 0 THEN Len(path) + 1 ELSE f
         IN  IF i # 2 THEN path
             ELSE LET r == RStrip(home, "/") \o SubSeq(path, i, Len(path))
                  IN  IF r = <<>> THEN <<"/">> ELSE r

RECURSIVE NormComps(_, _, _)
\* the loop of normpath over the components: drops "" and ".", folds ".."
NormComps(comps, new_comps, initial_slashes) ==
    IF comps = <<>> THEN new_comps
    ELSE LET comp == Head(comps)
             n == Len(new_comps)
         IN  IF comp = <<>> \/ comp = <<".">>
             THEN NormComps(Tail(comps), new_comps, initial_slashes)
             ELSE IF \/ comp # <<".", ".">>
                     \/ (initial_slashes = 0 /\ n = 0)
                     \/ (n > 0 /\ new_comps[n] = <<".", ".">>)
             THEN NormComps(Tail(comps), Append(new_comps, comp), initial_slashes)
             ELSE IF n > 0
             THEN NormComps(Tail(comps), SubSeq(new_comps, 1, n - 1), initial_slashes)
             ELSE NormComps(Tail(comps), new_comps, initial_slashes)

\* InitialSlashes with the test for a third slash inverted
InitialSlashesInverted(path) ==
    IF ~StartsWith(path, <<"/">>) THEN 0
    ELSE IF StartsWith(path, <<"/", "/", "/">>) THEN 2
    ELSE 1

\* the number of leading slashes normpath keeps: exactly two stay two
InitialSlashes(path) ==
    IF ~StartsWith(path, <<"/">>) THEN 0
    ELSE IF StartsWith(path, <<"/", "/">>) /\ ~StartsWith(path, <<"/", "/", "/">>)
    THEN 2
    ELSE 1

\* os.path.normpath(path)
NormPath(path) ==
    IF path = <<>> THEN <<".">>
    ELSE LET k == InitialSlashes(path)
             body == Join(NormComps(Split(path, "/"), <<>>, k), "/")
             r == [j \in 1..k |-> "/"] \o body
         IN  IF r = <<>> THEN <<".">> ELSE r

----------------------------------------------------------------------------
(* scripts/promptpath.py *)

CODE_ROOT == <<"~", "/", "c", "o", "d", "e">>

GithubPath ==
    <<"/">> \o <<"g", "i", "t", "h", "u", "b", ".", "c", "o", "m">>
    \o <<"/">> \o <<"e", "t", "h", "e", "r", "e", "u", "m", "-",
                    "o", "p", "t", "i", "m", "i", "s", "m">>
    \o <<"/">> \o <<"o", "p", "t", "i", "m", "i", "s", "m">>

\* the dict literal: one (full_path: alias) pair
PROJECT_MAPPINGS ==
    << [path  |-> CODE_ROOT \o GithubPath,
        alias |-> <<"o", "p", "t", "i", "m", "i", "s", "m">>] >>

normalize_path(path) == NormPath(ExpandUser(path))

\* the list comprehension: the items whose normalized path is a string prefix
\* of the normalized pwd, in dict order
RECURSIVE matching_paths(_, _)
matching_paths(items, npwd) ==
    IF items = <<>> THEN <<>>
    ELSE (IF StartsWith(npwd, normalize_path(Head(items).path))
          THEN <<Head(items)>> ELSE <<>>)
         \o matching_paths(Tail(items), npwd)

\* MaxByLen that keeps the first match, whatever its length
MaxByLenFirst(matches, best) == best

RECURSIVE MaxByLen(_, _)
\* max(matches, key=lambda x: len(x[0])) with best the maximum so far: a later
\* item replaces it only when strictly longer
MaxByLen(matches, best) ==
    IF matches = <<>> THEN best
    ELSE MaxByLen(Tail(matches),
                  IF Len(Head(matches).path) > Len(best.path)
                  THEN Head(matches) ELSE best)

find_project_alias(p) ==
    LET m == matching_paths(mappings, normalize_path(p))
    IN  IF m = <<>> THEN None ELSE Some(MaxByLen(Tail(m), Head(m)))

strip_leading_slash(path) ==
    IF path # <<>> /\ path[1] = "/" THEN SliceFrom(path, 1) ELSE path

\* line 37: os.getcwd().replace(os.path.expanduser('~'), '~', 1)
TildeForm(c) == Replace1(c, ExpandUser(<<"~">>), <<"~">>)

\* lines 42-46
AliasResult(p, match) ==
    strip_leading_slash(Replace1(p, match.path, match.alias))

\* FallbackResult without the special case of line 49
FallbackResultNoRoot(p) == strip_leading_slash(Replace1(p, CODE_ROOT, <<>>))

\* lines 49-52
FallbackResult(p) ==
    IF p = CODE_ROOT THEN SliceFrom(p, 2)
    ELSE strip_leading_slash(Replace1(p, CODE_ROOT, <<>>))

----------------------------------------------------------------------------
(* Inputs *)

Homes == { <<"/">>, <<"/", "h">>, <<"/", "h", "/">> }

Code == <<"c", "o", "d", "e">>

CodeDir == <<"/">> \o Code

OpNode == <<"o", "p", "-", "n", "o", "d", "e">>

\* directories a working directory starts with, and what follows them
CwdHeads == { <<>>, <<"/", "h">>, <<"/", "x", "/", "h">>, <<"/", "~">> }

CwdMiddles == { <<>>, CodeDir, CodeDir \o GithubPath,
                CodeDir \o GithubPath \o <<"f", "o", "o">> }

TailSegs == { OpNode,
              <<"o", "t", "h", "e", "r", "p", "r", "o", "j", "e", "c", "t">>,
              Code }

RECURSIVE TailsOf(_)
TailsOf(n) ==
    IF n = 0 THEN { <<>> }
    ELSE LET shorter == TailsOf(n - 1)
         IN  shorter \cup { t \o <<"/">> \o s : t \in shorter, s \in TailSegs }

\* os.getcwd() is absolute and canonical: no "", "." or ".." component
Cwds ==
    { (IF h \o m \o t = <<>> THEN <<"/">> ELSE h \o m \o t) :
        h \in CwdHeads, m \in CwdMiddles, t \in TailsOf(MaxTail) }

\* all strings over alphabet of length at most n
RECURSIVE StringsUpTo(_, _)
StringsUpTo(alphabet, n) ==
    IF n = 0 THEN { <<>> }
    ELSE LET shorter == StringsUpTo(alphabet, n - 1)
         IN  shorter \cup { Append(s, c) : s \in shorter, c \in alphabet }

NormInputs == StringsUpTo({"/", ".", "~", "a"}, MaxLen)

\* patterns and working directories given to find_project_alias
AliasPatterns ==
    { <<"/", "a">>, <<"/", "a", "/", "b">>, <<"~", "/", "a">>,
      <<"/", "a", "b">>, <<"/", "h", "/", "a">>, <<"/", "a", "/">> }

AliasNames == <<<<"p">>, <<"q">>, <<"r">>, <<"s">>>>

\* dicts of at most MaxMappings entries: distinct keys, in insertion order
AliasTables ==
    { [i \in DOMAIN f |-> [path |-> f[i], alias |-> AliasNames[i]]] :
        f \in { g \in UNION { [1..k -> AliasPatterns] : k \in 0..MaxMappings } :
                  \A i, j \in DOMAIN g : i # j => g[i] # g[j] } }

AliasPwds ==
    { <<"/", "a", "/", "b", "/", "c">>, <<"/", "a", "/", "b">>,
      <<"/", "a", "b", "/", "c">>, <<"~", "/", "a", "/", "b">>,
      <<"/", "h", "/", "a", "/", "b">>, <<"/", "c">>,
      <<"/", "a", "/", ".", ".", "/", "a", "/", "b">>, <<"/", "a">> }

----------------------------------------------------------------------------
(* The promptpath process: print(get_pathname()) *)

PathIdle ==
    /\ cwd = <<"/">>
    /\ mappings = PROJECT_MAPPINGS
    /\ pc = "idle"
    /\ pwd = <<>>
    /\ project_match = None
    /\ out = <<>>

NormIdle == norm_in = <<>> /\ norm_out = <<>>

BenchIdle ==
    /\ iterations = 0
    /\ bpc = "idle"
    /\ dir_idx = 1
    /\ proc_cwd = <<"/">>
    /\ cand = "Python"
    /\ warm = 0
    /\ iter_i = 0
    /\ times = <<>>
    /\ calls = <<>>
    /\ result = None
    /\ py_results = None
    /\ rust_results = None
    /\ printed = <<>>
    /\ runs = <<>>
    /\ err = ""

Init ==
    /\ home \in Homes
    /\ cwd \in Cwds
    /\ mappings = PROJECT_MAPPINGS
    /\ pc = "start"
    /\ pwd = <<>>
    /\ project_match = None
    /\ out = <<>>
    /\ NormIdle
    /\ BenchIdle

\* line 37
GetCwd ==
    /\ pc = "start"
    /\ pwd' = TildeForm(cwd)
    /\ pc' = "find"
    /\ UNCHANGED <<home, cwd, mappings, project_match, out, normVars, benchVars>>

\* line 40 (in find_project_alias: lines 22-29)
FindAlias ==
    /\ pc = "find"
    /\ project_match' = find_project_alias(pwd)
    /\ pc' = "branch"
    /\ UNCHANGED <<home, cwd, mappings, pwd, out, normVars, benchVars>>

\* lines 42-46
AliasBranch ==
    /\ pc = "branch"
    /\ project_match # None
    /\ out' = AliasResult(pwd, project_match[1])
    /\ pc' = "done"
    /\ UNCHANGED <<home, cwd, mappings, pwd, project_match, normVars, benchVars>>

\* lines 49-50
ExactRoot ==
    /\ pc = "branch"
    /\ project_match = None
    /\ pwd = CODE_ROOT
    /\ out' = FallbackResult(pwd)
    /\ pc' = "done"
    /\ UNCHANGED <<home, cwd, mappings, pwd, project_match, normVars, benchVars>>

\* lines 51-52
RootTrim ==
    /\ pc = "branch"
    /\ project_match = None
    /\ pwd # CODE_ROOT
    /\ out' = FallbackResult(pwd)
    /\ pc' = "done"
    /\ UNCHANGED <<home, cwd, mappings, pwd, project_match, normVars, benchVars>>

Next == GetCwd \/ FindAlias \/ AliasBranch \/ ExactRoot \/ RootTrim

Spec == Init /\ [][Next]_vars

----------------------------------------------------------------------------
(* normalize_path applied to a string, and again to its result *)

InitNormalize ==
    /\ home \in Homes
    /\ norm_in \in NormInputs
    /\ norm_out = <<>>
    /\ PathIdle
    /\ BenchIdle

Normalize ==
    /\ Len(norm_out) < 2
    /\ norm_out' = Append(norm_out,
                          normalize_path(IF norm_out = <<>> THEN norm_in
                                         ELSE norm_out[Len(norm_out)]))
    /\ UNCHANGED <<home, norm_in, pathVars, benchVars>>

SpecNormalize == InitNormalize /\ [][Normalize]_vars

----------------------------------------------------------------------------
(* find_project_alias called on a working directory under a mapping table *)

InitAlias ==
    /\ home \in Homes
    /\ mappings \in AliasTables
    /\ pwd \in AliasPwds
    /\ pc = "find"
    /\ cwd = <<"/">>
    /\ project_match = None
    /\ out = <<>>
    /\ NormIdle
    /\ BenchIdle

SpecAlias == InitAlias /\ [][FindAlias]_vars

----------------------------------------------------------------------------
(* scripts/benchmark.py *)

\* range(5) of the warm-up loop
WarmupRuns == 5

\* main's test_dirs
test_dirs ==
    << CODE_ROOT \o GithubPath,
       CODE_ROOT \o GithubPath \o <<"/">> \o OpNode,
       CODE_ROOT >>

\* Path.cwd() when main starts
ScriptDir == <<"/", "s">>

Durations == 1..MaxDur

RECURSIVE SeqSum(_)
SeqSum(s) == IF s = <<>> THEN 0 ELSE Head(s) + SeqSum(Tail(s))

RECURSIVE SeqSumSq(_)
SeqSumSq(s) == IF s = <<>> THEN 0 ELSE Head(s) * Head(s) + SeqSumSq(Tail(s))

SeqMin(s) == CHOOSE x \in {s[i] : i \in DOMAIN s} : \A i \in DOMAIN s : x <= s[i]

SeqMax(s) == CHOOSE x \in {s[i] : i \in DOMAIN s} : \A i \in DOMAIN s : x >= s[i]

RECURSIVE Insert(_, _)
Insert(sorted, x) ==
    IF sorted = <<>> THEN <<x>>
    ELSE IF x <= Head(sorted) THEN <<x>> \o sorted
    ELSE <<Head(sorted)>> \o Insert(Tail(sorted), x)

RECURSIVE Sorted(_)
Sorted(s) == IF s = <<>> THEN <<>> ELSE Insert(Sorted(Tail(s)), Head(s))

\* a rational number num/den, kept unreduced
Frac(n, d) == [num |-> n, den |-> d]

\* statistics.mean
Mean(s) == Frac(SeqSum(s), Len(s))

\* statistics.median: the middle element, or the mean of the two middle ones
Median(s) ==
    LET t == Sorted(s)
        n == Len(s)
    IN  IF n % 2 = 1 THEN Frac(t[(n + 1) \div 2], 1)
        ELSE Frac(t[n \div 2] + t[n \div 2 + 1], 2)

\* statistics.stdev is the square root of the sample variance
\* sum((x - mean)^2) / (n - 1) = (n * sum(x^2) - sum(x)^2) / (n * (n - 1));
\* the variance is kept, as a fraction
StdevSquared(s) ==
    Frac(Len(s) * SeqSumSq(s) - SeqSum(s) * SeqSum(s), Len(s) * (Len(s) - 1))

\* StatsError where a single sample is accepted
StatsErrorFromOne(ts) == IF Len(ts) = 0 THEN "ValueError" ELSE ""

\* the exception lines 35-39 raise on the list, "" when none: min() of an empty
\* list, then statistics.stdev of fewer than two data points
StatsError(ts) ==
    IF Len(ts) = 0 THEN "ValueError"
    ELSE IF Len(ts) < 2 THEN "StatisticsError"
    ELSE ""

\* the dict of lines 33-40
Stats(name, ts) ==
    [name |-> name, min |-> SeqMin(ts), max |-> SeqMax(ts), mean |-> Mean(ts),
     median |-> Median(ts), stddev |-> StdevSquared(ts)]

\* the warm-up loop with the return value appended to times
TimesAfterWarmupKept(ts, d) == Append(ts, d)

\* times after one warm-up run that took d: line 25 drops the return value
TimesAfterWarmup(ts, d) == ts

\* the working directory with os.chdir left out
ChdirSkipped(current, test_dir) == current

\* the working directory after lines 81 and 85
Chdir(current, test_dir) == ExpandUser(test_dir)

\* subprocess.run without check=True: the failure is not raised
AfterFailedRunIgnored(position) == position

\* where the process is after a failed subprocess.run(..., check=True)
AfterFailedRun(position) == "raised"

Run(ok) == [dir |-> dir_idx, cand |-> cand, cwd |-> proc_cwd, ok |-> ok]

\* the locals of a fresh benchmark_command call
EnterBenchmark ==
    /\ warm' = 0
    /\ iter_i' = 0
    /\ times' = <<>>
    /\ calls' = <<>>
    /\ result' = None

\* main as it starts; it passes no iterations argument (the default is 1000),
\* here the argument is any of 0..MaxIter
InitBench ==
    /\ home \in Homes
    /\ iterations \in 0..MaxIter
    /\ bpc = "loop"
    /\ dir_idx = 1
    /\ proc_cwd = ScriptDir
    /\ cand = "Python"
    /\ warm = 0
    /\ iter_i = 0
    /\ times = <<>>
    /\ calls = <<>>
    /\ result = None
    /\ py_results = None
    /\ rust_results = None
    /\ printed = <<>>
    /\ runs = <<>>
    /\ err = ""
    /\ PathIdle
    /\ NormIdle

\* lines 80-91: the next test directory is entered and Python's benchmark
\* starts; py_results and rust_results of the directory before are dead
EnterDir ==
    /\ bpc = "loop"
    /\ dir_idx <= Len(test_dirs)
    /\ proc_cwd' = Chdir(proc_cwd, test_dirs[dir_idx])
    /\ cand' = "Python"
    /\ EnterBenchmark
    /\ py_results' = None
    /\ rust_results' = None
    /\ bpc' = "warmup"
    /\ UNCHANGED <<home, pathVars, normVars, iterations, dir_idx, printed, runs, err>>

\* line 85: the directory does not exist
ChdirFails ==
    /\ bpc = "loop"
    /\ dir_idx <= Len(test_dirs)
    /\ bpc' = "raised"
    /\ err' = "FileNotFoundError"
    /\ UNCHANGED <<home, pathVars, normVars, iterations, dir_idx, proc_cwd, cand,
                   warm, iter_i, times, calls, result, py_results, rust_results,
                   printed, runs>>

\* lines 24-25: one warm-up run that succeeds
WarmupRun ==
    /\ bpc = "warmup"
    /\ warm < WarmupRuns
    /\ \E d \in Durations :
          /\ times' = TimesAfterWarmup(times, d)
          /\ calls' = Append(calls, [kind |-> "warmup", ret |-> None])
    /\ runs' = Append(runs, Run(TRUE))
    /\ warm' = warm + 1
    /\ bpc' = IF warm + 1 < WarmupRuns THEN "warmup"
              ELSE IF iterations > 0 THEN "measure"
              ELSE "stats"
    /\ UNCHANGED <<home, pathVars, normVars, iterations, dir_idx, proc_cwd, cand,
                   iter_i, result, py_results, rust_results, printed, err>>

\* lines 29-31: one measured run that succeeds
MeasuredRun ==
    /\ bpc = "measure"
    /\ iter_i < iterations
    /\ \E d \in Durations :
          /\ times' = Append(times, d)
          /\ calls' = Append(calls, [kind |-> "measured", ret |-> Some(d)])
    /\ runs' = Append(runs, Run(TRUE))
    /\ iter_i' = iter_i + 1
    /\ bpc' = IF iter_i + 1 < iterations THEN "measure" ELSE "stats"
    /\ UNCHANGED <<home, pathVars, normVars, iterations, dir_idx, proc_cwd, cand,
                   warm, result, py_results, rust_results, printed, err>>

\* line 15: the candidate cannot be launched or exits non-zero
RunFails ==
    /\ bpc \in {"warmup", "measure"}
    /\ runs' = Append(runs, Run(FALSE))
    /\ bpc' = AfterFailedRun(bpc)
    /\ \E e \in {"FileNotFoundError", "CalledProcessError"} : err' = e
    /\ UNCHANGED <<home, pathVars, normVars, iterations, dir_idx, proc_cwd, cand,
                   warm, iter_i, times, calls, result, py_results, rust_results,
                   printed>>

\* lines 33-40
ComputeStats ==
    /\ bpc = "stats"
    /\ IF StatsError(times) # ""
       THEN /\ bpc' = "raised"
            /\ err' = StatsError(times)
            /\ result' = result
       ELSE /\ bpc' = "return"
            /\ err' = err
            /\ result' = Some(Stats(cand, times))
    /\ UNCHANGED <<home, pathVars, normVars, iterations, dir_idx, proc_cwd, cand,
                   warm, iter_i, times, calls, py_results, rust_results, printed,
                   runs>>

\* lines 91-92: Python's result is kept and Rust's benchmark starts
PythonReturned ==
    /\ bpc = "return"
    /\ cand = "Python"
    /\ py_results' = result
    /\ cand' = "Rust"
    /\ EnterBenchmark
    /\ bpc' = "warmup"
    /\ UNCHANGED <<home, pathVars, normVars, iterations, dir_idx, proc_cwd,
                   rust_results, printed, runs, err>>

\* line 92
RustReturned ==
    /\ bpc = "return"
    /\ cand = "Rust"
    /\ rust_results' = result
    /\ bpc' = "print"
    /\ UNCHANGED <<home, pathVars, normVars, iterations, dir_idx, proc_cwd, cand,
                   warm, iter_i, times, calls, result, py_results, printed, runs,
                   err>>

\* line 94, and back to line 80; the means are positive, so the speedup
\* division of line 56 does not raise
PrintResults ==
    /\ bpc = "print"
    /\ printed' = Append(printed, [dir |-> dir_idx, cwd |-> proc_cwd,
                                   rows |-> <<py_results[1].name, rust_results[1].name>>])
    /\ dir_idx' = dir_idx + 1
    /\ bpc' = IF dir_idx + 1 <= Len(test_dirs) THEN "loop" ELSE "done"
    /\ UNCHANGED <<home, pathVars, normVars, iterations, proc_cwd, cand, warm,
                   iter_i, times, calls, result, py_results, rust_results, runs,
                   err>>

NextBench ==
    \/ EnterDir
    \/ ChdirFails
    \/ WarmupRun
    \/ MeasuredRun
    \/ RunFails
    \/ ComputeStats
    \/ PythonReturned
    \/ RustReturned
    \/ PrintResults

SpecBench == InitBench /\ [][NextBench]_vars

----------------------------------------------------------------------------
(* Properties of get_pathname, under Spec *)

\* the home directory as os.path.expanduser('~') gives it
HomeDir == ExpandUser(<<"~">>)

\* d itself or a directory below d
AtOrUnder(c, d) == c = d \/ StartsWith(c, d \o <<"/">>)

\* C1: for every configured (pattern, alias) and every working directory that
\* is the pattern's directory or nested under it, get_pathname returns the
\* alias followed by the rest of the path after the pattern's directory.
C1_AliasThenRemainder ==
    pc = "done" =>
        \A i \in 1..Len(mappings) :
            LET d == normalize_path(mappings[i].path)
            IN  AtOrUnder(cwd, d) =>
                    out = mappings[i].alias \o SliceFrom(cwd, Len(d))

\* C2: whatever the working directory and the home directory, the string
\* get_pathname returns does not start with "/".
C2_NoLeadingSlash == pc = "done" => ~StartsWith(out, <<"/">>)

C9_TildeOnlyAsPrefix ==
    pc # "start" =>
        pwd = IF StartsWith(cwd, HomeDir)
              THEN <<"~">> \o SliceFrom(cwd, Len(HomeDir))
              ELSE cwd

----------------------------------------------------------------------------
(* Properties of find_project_alias, under SpecAlias *)

\* the entries of the table whose normalized pattern is a prefix of the
\* normalized working directory
Matching ==
    { i \in 1..Len(mappings) :
        StartsWith(normalize_path(pwd), normalize_path(mappings[i].path)) }

\* C3: find_project_alias returns nothing exactly when no pattern matches, and
\* otherwise a matching entry whose pattern is at least as long as every other
\* matching pattern.
C3_LongestMatch ==
    pc = "branch" =>
        /\ project_match = None <=> Matching = {}
        /\ Matching # {} =>
              \E i \in Matching :
                  /\ project_match = Some(mappings[i])
                  /\ \A j \in Matching :
                        Len(mappings[j].path) <= Len(mappings[i].path)

\* /a declared before /a/b, both matching /a/b/c: /a/b is returned
C3_Witness ==
    /\ pc = "branch"
    /\ pwd = <<"/", "a", "/", "b", "/", "c">>
    /\ Len(mappings) = 2
    /\ mappings[1].path = <<"/", "a">>
    /\ mappings[2].path = <<"/", "a", "/", "b">>
    /\ project_match = Some(mappings[2])

----------------------------------------------------------------------------
(* Properties of normalize_path, under SpecNormalize *)

\* C5 as claimed: normalize_path(normalize_path(p)) = normalize_path(p) for
\* every path p.
C5_Idempotent == Len(norm_out) = 2 => norm_out[2] = norm_out[1]

\* C5 as amended: normalize_path(normalize_path(p)) = normalize_path(p) for
\* every path p whose normalized form does not start with "~".
C5_IdempotentUnlessTilde ==
    (Len(norm_out) = 2 /\ ~StartsWith(norm_out[1], <<"~">>)) =>
        norm_out[2] = norm_out[1]

\* a path with a "~" segment, ".." and a doubled separator, normalized twice
C5_Witness ==
    /\ Len(norm_out) = 2
    /\ norm_in = <<"~", "/", "/", ".", ".">>
    /\ home = <<"/", "h">>
    /\ norm_out[1] = <<"/">>
    /\ norm_out[2] = <<"/">>

----------------------------------------------------------------------------
(* Properties of benchmark_command and main, under SpecBench *)

\* the durations run_command returned to the measured loop, in call order
MeasuredReturns ==
    [k \in 1..(Len(calls) - 5) |-> calls[5 + k].ret[1]]

\* C6: benchmark_command runs exactly 5 warm-up runs first and then exactly
\* iterations measured runs; times is the measured durations in order, no
\* warm-up run adds to it, and the statistics are those of these durations.
C6_WarmupsThenSamples ==
    /\ \A k \in DOMAIN calls :
          IF k <= 5 THEN calls[k] = [kind |-> "warmup", ret |-> None]
          ELSE calls[k].kind = "measured" /\ calls[k].ret # None
    /\ Len(times) = IF Len(calls) > 5 THEN Len(calls) - 5 ELSE 0
    /\ times = MeasuredReturns
    /\ bpc \in {"stats", "return"} =>
          Len(calls) = 5 + iterations /\ Len(times) = iterations
    /\ bpc = "return" => result = Some(Stats(cand, MeasuredReturns))

\* Rust's benchmark returned after 3 measured runs of differing durations
C6_Witness ==
    /\ bpc = "return"
    /\ cand = "Rust"
    /\ iterations = 3
    /\ Len(calls) = 8
    /\ times[1] # times[2]

\* some invocation of a candidate failed
Failed == \E k \in DOMAIN runs : ~runs[k].ok

\* C7: a failed invocation ends the run at once: the process is left with the
\* exception raised, no report for the directory in progress, and nothing
\* happens afterwards (no retry, no further invocation, no later directory).
C7_FailureAborts ==
    [][ /\ ~Failed
        /\ Failed' => /\ bpc' = "raised"
                       /\ printed' = printed
                       /\ Len(printed') = dir_idx' - 1
                       /\ dir_idx' = dir_idx
                       /\ Len(runs') = Len(runs) + 1 ]_vars

\* the second directory's Rust run failed after the first directory's report
C7_Witness ==
    /\ Failed
    /\ bpc = "raised"
    /\ dir_idx = 2
    /\ cand = "Rust"
    /\ Len(printed) = 1

\* C8: every invocation for a test directory runs with the process working
\* directory at that directory (expanded), directories are taken in list
\* order, within a directory every Python run precedes every Rust run, and
\* the report is printed with the working directory still there.
C8_OneCwdPerDirectory ==
    LET expanded == { [dir |-> d, cwd |-> ExpandUser(test_dirs[d])] :
                        d \in DOMAIN test_dirs }
    IN  /\ { [dir |-> runs[k].dir, cwd |-> runs[k].cwd] : k \in DOMAIN runs }
              \subseteq expanded
        /\ \A k \in 1..(Len(runs) - 1) :
              /\ runs[k].dir <= runs[k + 1].dir
              /\ (runs[k].dir = runs[k + 1].dir /\ runs[k].cand = "Rust")
                    => runs[k + 1].cand = "Rust"
        /\ \A k \in DOMAIN printed : printed[k].dir = k
        /\ { [dir |-> printed[k].dir, cwd |-> printed[k].cwd] : k \in DOMAIN printed }
              \subseteq expanded
        /\ bpc \in {"warmup", "measure", "stats", "return", "print"} =>
              [dir |-> dir_idx, cwd |-> proc_cwd] \in expanded

\* all three directories were benchmarked and reported
C8_Witness ==
    /\ bpc = "done"
    /\ Len(printed) = 3
    /\ iterations = 2
    /\ Len(runs) = 42
    /\ runs[1].cwd # runs[42].cwd

\* C10: with iterations 0 or 1 benchmark_command returns nothing and raises
\* while computing the statistics, after all 5 warm-up runs and all measured
\* runs; with iterations >= 2 and no failed run the statistics never raise and
\* the result holds min, max, mean, median and stddev.
C10_FewSamplesRaise ==
    /\ iterations < 2 =>
          /\ result = None /\ py_results = None /\ rust_results = None
          /\ bpc \notin {"return", "print", "done"}
          /\ bpc = "stats" => Len(times) < 2
    /\ err \in {"ValueError", "StatisticsError"} =>
          /\ iterations < 2
          /\ bpc = "raised"
          /\ ~Failed
          /\ Len(calls) = 5 + iterations
    /\ (iterations >= 2 /\ bpc = "stats") => Len(times) >= 2
    /\ (iterations >= 2 /\ bpc = "return") =>
          /\ result # None
          /\ DOMAIN result[1] = {"name", "min", "max", "mean", "median", "stddev"}

\* one retained sample: statistics.stdev raised after 5 + 1 runs
C10_Witness ==
    /\ bpc = "raised"
    /\ err = "StatisticsError"
    /\ iterations = 1
    /\ Len(calls) = 6

====
